---- MODULE Spec2Model ----
(***************************************************************************)
(* Model of the assistant bot of main.py: the fields Phone and Birthday,   *)
(* Record, AddressBook, the command handlers wrapped by input_error, the   *)
(* pickle persistence and the command loop of main.                        *)
(*                                                                         *)
(* Text is a sequence of one-character strings.  A datetime is a record    *)
(* [year, month, day, tod] where tod is the time of day in seconds; it is  *)
(* compared by its proleptic Gregorian ordinal and then by tod.            *)
(***************************************************************************)
EXTENDS Integers, Sequences, FiniteSets, TLC

VARIABLES book, file, status, last

vars == <<book, file, status, last>>

(***************************************************************************)
(* Bounds                                                                  *)
(***************************************************************************)
\* longest phone list a record grows to
MaxPhones == 2

(***************************************************************************)
(* Characters                                                              *)
(***************************************************************************)
AsciiDigits == {"0", "1", "2", "3", "4", "5", "6", "7", "8", "9"}

\* ARABIC-INDIC DIGIT THREE, a decimal digit (category Nd) outside ASCII
ArabicThree == "U+0663"

\* the characters the pattern \d matches in a str pattern
Digits == AsciiDigits \cup {ArabicThree}

NonZeroAscii == AsciiDigits \ {"0"}

\* the characters str.split() treats as separators
Whitespace == {" ", "\t"}

\* int() of one decimal digit
DigitVal(c) ==
    CASE c = "0" -> 0 [] c = "1" -> 1 [] c = "2" -> 2 [] c = "3" -> 3
      [] c = "4" -> 4 [] c = "5" -> 5 [] c = "6" -> 6 [] c = "7" -> 7
      [] c = "8" -> 8 [] c = "9" -> 9 [] c = ArabicThree -> 3

RECURSIVE ToInt(_)
\* int() of a string of decimal digits
ToInt(s) ==
    IF s = <<>> THEN 0
    ELSE 10 * ToInt(SubSeq(s, 1, Len(s) - 1)) + DigitVal(s[Len(s)])

\* the character of one decimal digit value
DigitChar(n) ==
    CASE n = 0 -> "0" [] n = 1 -> "1" [] n = 2 -> "2" [] n = 3 -> "3"
      [] n = 4 -> "4" [] n = 5 -> "5" [] n = 6 -> "6" [] n = 7 -> "7"
      [] n = 8 -> "8" [] n = 9 -> "9"

RECURSIVE JoinText(_, _)
\* sep.join(parts)
JoinText(parts, sep) ==
    IF parts = <<>> THEN <<>>
    ELSE IF Len(parts) = 1 THEN parts[1]
    ELSE parts[1] \o sep \o JoinText(Tail(parts), sep)

RECURSIVE SplitFrom(_, _, _)
\* the words of s from position i on, cur being the word collected so far
SplitFrom(s, i, cur) ==
    IF i > Len(s) THEN (IF cur = <<>> THEN <<>> ELSE <<cur>>)
    ELSE IF s[i] \in Whitespace
         THEN (IF cur = <<>> THEN <<>> ELSE <<cur>>) \o SplitFrom(s, i + 1, <<>>)
         ELSE SplitFrom(s, i + 1, Append(cur, s[i]))

\* str.split(): the maximal runs of non-whitespace characters
Split(s) == SplitFrom(s, 1, <<>>)

(***************************************************************************)
(* Calendar of datetime                                                    *)
(***************************************************************************)
IsLeap(y) == (y % 4 = 0) /\ ((y % 100 # 0) \/ (y % 400 = 0))

DaysInMonth(y, m) ==
    CASE m \in {1, 3, 5, 7, 8, 10, 12} -> 31
      [] m \in {4, 6, 9, 11} -> 30
      [] m = 2 -> (IF IsLeap(y) THEN 29 ELSE 28)

\* the dates the datetime constructor accepts
ValidDate(y, m, d) ==
    /\ y \in 1..9999
    /\ m \in 1..12
    /\ d >= 1
    /\ d <= DaysInMonth(y, m)

DaysBeforeYear(y) ==
    ((y - 1) * 365) + ((y - 1) \div 4) - ((y - 1) \div 100) + ((y - 1) \div 400)

RECURSIVE DaysBeforeMonth(_, _)
DaysBeforeMonth(y, m) ==
    IF m = 1 THEN 0 ELSE DaysBeforeMonth(y, m - 1) + DaysInMonth(y, m - 1)

\* date.toordinal()
Ordinal(dt) == DaysBeforeYear(dt.year) + DaysBeforeMonth(dt.year, dt.month) + dt.day

\* a < b on datetimes
DtLess(a, b) ==
    \/ Ordinal(a) < Ordinal(b)
    \/ (Ordinal(a) = Ordinal(b) /\ a.tod < b.tod)

\* a <= b on datetimes
DtLeq(a, b) == ~DtLess(b, a)

\* a <= b where b is the datetime dt + timedelta(days=n)
DtLeqPlusDays(a, dt, n) ==
    \/ Ordinal(a) < Ordinal(dt) + n
    \/ (Ordinal(a) = Ordinal(dt) + n /\ a.tod <= dt.tod)

(***************************************************************************)
(* Fields                                                                  *)
(***************************************************************************)
\* the value of record.birthday before add_birthday
None == [year |-> 0, month |-> 0, day |-> 0, tod |-> 0]

PhoneError == "Phone number must be 10 digits."

BirthdayError == "Invalid date format. Use DD.MM.YYYY instead"

\* a prefix match in place of the full match
validate_prefix(value) ==
    /\ Len(value) >= 10
    /\ \A i \in 1..10 : value[i] \in Digits

\* Phone.validate: re.fullmatch(r"\d{10}", value)
validate(value) ==
    /\ Len(value) = 10
    /\ \A i \in 1..Len(value) : value[i] \in Digits

\* the directive %d: 3[0-1] | [1-2]\d | 0[1-9] | [1-9] | " "[1-9]
MatchesDay(f) ==
    \/ /\ Len(f) = 2
       /\ \/ (f[1] = "3" /\ f[2] \in {"0", "1"})
          \/ (f[1] \in {"1", "2"} /\ f[2] \in Digits)
          \/ (f[1] \in {"0", " "} /\ f[2] \in NonZeroAscii)
    \/ (Len(f) = 1 /\ f[1] \in NonZeroAscii)

\* the directive %m: 1[0-2] | 0[1-9] | [1-9]
MatchesMonth(f) ==
    \/ /\ Len(f) = 2
       /\ \/ (f[1] = "1" /\ f[2] \in {"0", "1", "2"})
          \/ (f[1] = "0" /\ f[2] \in NonZeroAscii)
    \/ (Len(f) = 1 /\ f[1] \in NonZeroAscii)

\* the directive %Y: \d\d\d\d
MatchesYear(f) == Len(f) = 4 /\ \A i \in 1..4 : f[i] \in Digits

\* int() of a matched field; the space of " 3" is skipped
FieldInt(f) == ToInt(SelectSeq(f, LAMBDA c : c # " "))

\* datetime.strptime(value, "%d.%m.%Y"): ok is FALSE where it raises ValueError
strptime(value) ==
    LET dots == {i \in 1..Len(value) : value[i] = "."}
        bad == [ok |-> FALSE, value |-> None]
    IN IF Cardinality(dots) # 2 THEN bad
       ELSE LET i == CHOOSE k \in dots : \A j \in dots : k <= j
                j == CHOOSE k \in dots : \A l \in dots : l <= k
                df == SubSeq(value, 1, i - 1)
                mf == SubSeq(value, i + 1, j - 1)
                yf == SubSeq(value, j + 1, Len(value))
            IN IF ~(MatchesDay(df) /\ MatchesMonth(mf) /\ MatchesYear(yf)) THEN bad
               ELSE LET d == FieldInt(df)
                        m == FieldInt(mf)
                        y == FieldInt(yf)
                    IN IF ValidDate(y, m, d)
                       THEN [ok |-> TRUE,
                             value |-> [year |-> y, month |-> m, day |-> d, tod |-> 0]]
                       ELSE bad

\* Birthday(value): ok is FALSE where the constructor raises ValueError
Birthday(value) ==
    LET r == strptime(value)
    IN IF r.ok THEN [ok |-> TRUE, value |-> r.value, err |-> ""]
       ELSE [ok |-> FALSE, value |-> None, err |-> BirthdayError]

\* two decimal digits, zero padded
TwoDigits(n) == <<DigitChar(n \div 10), DigitChar(n % 10)>>

\* datetime.strftime(value, "%d.%m.%Y")
strftime(dt) ==
    TwoDigits(dt.day) \o <<".">> \o TwoDigits(dt.month) \o <<".">>
      \o TwoDigits(dt.year \div 100) \o TwoDigits(dt.year % 100)

(***************************************************************************)
(* Record                                                                  *)
(***************************************************************************)
\* Record(name)
Record(name) == [name |-> name, birthday |-> None, phones |-> <<>>]

\* the text find_phone returns when no phone matches
PhoneNotFound ==
    <<"P", "h", "o", "n", "e", " ", "n", "o", "t", " ", "f", "o", "u", "n", "d", ".">>

\* Record.add_phone: ok is FALSE where Phone(phone) raises ValueError
add_phone(record, phone) ==
    IF validate(phone)
    THEN [ok |-> TRUE, record |-> [record EXCEPT !.phones = Append(@, phone)], err |-> ""]
    ELSE [ok |-> FALSE, record |-> record, err |-> PhoneError]

\* Record.add_birthday: ok is FALSE where Birthday(birthday) raises ValueError
add_birthday_to(record, birthday) ==
    LET b == Birthday(birthday)
    IN IF b.ok
       THEN [ok |-> TRUE, record |-> [record EXCEPT !.birthday = b.value], err |-> ""]
       ELSE [ok |-> FALSE, record |-> record, err |-> b.err]

\* only the first matching phone is removed, as list.remove does
remove_phone_first(record, phone) ==
    LET hits == {i \in 1..Len(record.phones) : record.phones[i] = phone}
    IN IF hits = {} THEN record
       ELSE LET i == CHOOSE k \in hits : \A j \in hits : k <= j
            IN [record EXCEPT !.phones =
                    SubSeq(@, 1, i - 1) \o SubSeq(@, i + 1, Len(@))]

\* Record.remove_phone
remove_phone(record, phone) ==
    [record EXCEPT !.phones = SelectSeq(@, LAMBDA p : p # phone)]

\* the old phone is removed only once the new one has been accepted
edit_phone_atomic(record, old_phone, new_phone) ==
    IF validate(new_phone)
    THEN add_phone(remove_phone(record, old_phone), new_phone)
    ELSE [ok |-> FALSE, record |-> record, err |-> PhoneError]

\* Record.edit_phone: the removal stays when add_phone raises
edit_phone(record, old_phone, new_phone) ==
    add_phone(remove_phone(record, old_phone), new_phone)

\* Record.find_phone
find_phone(record, phone) ==
    IF \E i \in 1..Len(record.phones) : record.phones[i] = phone
    THEN phone
    ELSE PhoneNotFound

NoBirthdayText == <<"N", "o", " ", "b", "i", "r", "t", "h", "d", "a", "y">>

\* Record.__str__: the name, the birthday text and the joined phones
RecordStr(record) ==
    <<record.name,
      IF record.birthday # None THEN strftime(record.birthday) ELSE NoBirthdayText,
      JoinText(record.phones, <<";", " ">>)>>

(***************************************************************************)
(* AddressBook: the records in the insertion order of the dictionary       *)
(***************************************************************************)
\* the position of the key name, 0 when the key is absent
KeyIndex(data, name) ==
    IF \E i \in 1..Len(data) : data[i].name = name
    THEN CHOOSE i \in 1..Len(data) : data[i].name = name
    ELSE 0

\* the result of find for an absent name
NoRecord == [name |-> <<>>, birthday |-> None, phones |-> <<>>]

\* AddressBook.add_record: data[record.name.value] = record
add_record(data, record) ==
    IF KeyIndex(data, record.name) = 0
    THEN Append(data, record)
    ELSE [data EXCEPT ![KeyIndex(data, record.name)] = record]

\* AddressBook.find: data.get(name, None)
find(data, name) ==
    IF KeyIndex(data, name) = 0 THEN NoRecord ELSE data[KeyIndex(data, name)]

\* AddressBook.delete
delete(data, name) ==
    IF KeyIndex(data, name) # 0
    THEN [data |-> SelectSeq(data, LAMBDA r : r.name # name), ret |-> ""]
    ELSE [data |-> data, ret |-> "Contact not found."]

\* datetime.replace(year=y): ok is FALSE where it raises ValueError
replace_year(dt, y) ==
    IF ValidDate(y, dt.month, dt.day)
    THEN [ok |-> TRUE, value |-> [dt EXCEPT !.year = y]]
    ELSE [ok |-> FALSE, value |-> dt]

ReplaceError == "day is out of range for month"

\* one pass of the loop body of get_upcoming_birthdays:
\* raised, or whether the name is appended
UpcomingStep(record, today) ==
    IF record.birthday = None THEN [ok |-> TRUE, hit |-> FALSE]
    ELSE LET this == replace_year(record.birthday, today.year)
         IN IF ~this.ok THEN [ok |-> FALSE, hit |-> FALSE]
            ELSE IF DtLess(this.value, today)
                 THEN LET next == replace_year(this.value, today.year + 1)
                      IN IF ~next.ok THEN [ok |-> FALSE, hit |-> FALSE]
                         ELSE [ok |-> TRUE,
                               hit |-> DtLeq(today, next.value)
                                         /\ DtLeqPlusDays(next.value, today, 7)]
                 ELSE [ok |-> TRUE,
                       hit |-> DtLeq(today, this.value)
                                 /\ DtLeqPlusDays(this.value, today, 7)]

RECURSIVE UpcomingLoop(_, _, _, _)
\* the loop of get_upcoming_birthdays from record i on
UpcomingLoop(data, today, i, acc) ==
    IF i > Len(data) THEN [ok |-> TRUE, names |-> acc, err |-> ""]
    ELSE LET s == UpcomingStep(data[i], today)
         IN IF ~s.ok THEN [ok |-> FALSE, names |-> <<>>, err |-> ReplaceError]
            ELSE UpcomingLoop(data, today, i + 1,
                              IF s.hit THEN Append(acc, data[i].name) ELSE acc)

\* AddressBook.get_upcoming_birthdays with datetime.today() = today:
\* ok is FALSE where it raises ValueError
get_upcoming_birthdays(data, today) == UpcomingLoop(data, today, 1, <<>>)

(***************************************************************************)
(* Command handlers, each under the decorator input_error                  *)
(***************************************************************************)
\* one call of print: the fixed text and the texts formatted into it
Line(text, data) == [text |-> text, msg |-> "", data |-> data]

\* input_error: print(f"Error: {er}")
ErrorLine(er) == [text |-> "Error: ", msg |-> er, data |-> <<>>]

\* the message of the IndexError of args[i]
IndexErrorMsg == "list index out of range"

\* a present name gets a fresh record in place of the stored one
add_contact_fresh(args, data) ==
    IF Len(args) < 2 THEN [book |-> data, out |-> <<ErrorLine(IndexErrorMsg)>>]
    ELSE LET name == args[1]
             phone == args[2]
             absent == KeyIndex(data, name) = 0
             data1 == add_record(data, Record(name))
             message == IF absent THEN "Contact added." ELSE "Contact updated."
             r == add_phone(find(data1, name), phone)
         IN IF r.ok
            THEN [book |-> add_record(data1, r.record), out |-> <<Line(message, <<>>)>>]
            ELSE [book |-> data1, out |-> <<ErrorLine(r.err)>>]

\* add_contact: the record is stored before add_phone validates the phone
add_contact(args, data) ==
    IF Len(args) < 2 THEN [book |-> data, out |-> <<ErrorLine(IndexErrorMsg)>>]
    ELSE LET name == args[1]
             phone == args[2]
             absent == KeyIndex(data, name) = 0
             data1 == IF absent THEN add_record(data, Record(name)) ELSE data
             message == IF absent THEN "Contact added." ELSE "Contact updated."
             r == add_phone(find(data1, name), phone)
         IN IF r.ok
            THEN [book |-> add_record(data1, r.record), out |-> <<Line(message, <<>>)>>]
            ELSE [book |-> data1, out |-> <<ErrorLine(r.err)>>]

\* change_phone
change_phone(args, data) ==
    IF Len(args) < 3 THEN [book |-> data, out |-> <<ErrorLine(IndexErrorMsg)>>]
    ELSE LET name == args[1]
             old_phone == args[2]
             new_phone == args[3]
         IN IF KeyIndex(data, name) # 0
            THEN LET r == edit_phone(find(data, name), old_phone, new_phone)
                 IN [book |-> add_record(data, r.record),
                     out |-> IF r.ok THEN <<Line("Phone has been changed.", <<>>)>>
                             ELSE <<ErrorLine(r.err)>>]
            ELSE [book |-> data, out |-> <<Line("Contact not found.", <<>>)>>]

\* show_phone_numbers: the returned text of the absent case is dropped by the wrapper
show_phone_numbers(args, data) ==
    IF Len(args) < 1 THEN [book |-> data, out |-> <<ErrorLine(IndexErrorMsg)>>]
    ELSE IF KeyIndex(data, args[1]) # 0
         THEN [book |-> data,
               out |-> <<Line("", <<JoinText(find(data, args[1]).phones, <<";", " ">>)>>)>>]
         ELSE [book |-> data, out |-> <<>>]

RECURSIVE AllRecordStr(_)
\* the texts of str(record) of every record, in order
AllRecordStr(data) ==
    IF data = <<>> THEN <<>> ELSE RecordStr(Head(data)) \o AllRecordStr(Tail(data))

\* show_all_contacts
show_all_contacts(data) ==
    IF Len(data) < 1
    THEN [book |-> data, out |-> <<Line("Address book is empty.", <<>>)>>]
    ELSE [book |-> data,
          out |-> <<Line("Contact name: , contact birthday: , phones: ", AllRecordStr(data))>>]

\* add_birthday
add_birthday(args, data) ==
    IF Len(args) < 2 THEN [book |-> data, out |-> <<ErrorLine(IndexErrorMsg)>>]
    ELSE LET name == args[1]
             birthday == args[2]
         IN IF KeyIndex(data, name) # 0
            THEN LET r == add_birthday_to(find(data, name), birthday)
                 IN [book |-> add_record(data, r.record),
                     out |-> IF r.ok THEN <<Line("Birthday for  added", <<name>>)>>
                             ELSE <<ErrorLine(r.err)>>]
            ELSE [book |-> data, out |-> <<Line("Contact not found", <<>>)>>]

\* show_birthday
show_birthday(args, data) ==
    IF Len(args) < 1 THEN [book |-> data, out |-> <<ErrorLine(IndexErrorMsg)>>]
    ELSE LET name == args[1]
             record == find(data, name)
         IN IF KeyIndex(data, name) # 0 /\ record.birthday # None
            THEN [book |-> data,
                  out |-> <<Line("'s birthday: ", <<name, strftime(record.birthday)>>)>>]
            ELSE IF KeyIndex(data, name) # 0
                 THEN [book |-> data,
                       out |-> <<Line(" does not have a birthday set.", <<name>>)>>]
                 ELSE [book |-> data, out |-> <<Line("Contact not found.", <<>>)>>]

UpcomingText == "Upcoming birthdays in the next week: "

NoUpcomingText == "No upcoming birthdays in the next week."

\* upcoming_birthdays with datetime.today() = today
upcoming_birthdays(data, today) ==
    LET upcoming == get_upcoming_birthdays(data, today)
    IN IF ~upcoming.ok THEN [book |-> data, out |-> <<ErrorLine(upcoming.err)>>]
       ELSE [book |-> data,
             out |-> (IF upcoming.names # <<>>
                      THEN <<Line(UpcomingText, <<JoinText(upcoming.names, <<",", " ">>)>>)>>
                      ELSE <<>>)
                     \o <<Line(NoUpcomingText, <<>>)>>]

(***************************************************************************)
(* Persistence                                                             *)
(***************************************************************************)
\* the state of address_book.pkl before the first save
NoFile == [exists |-> FALSE, data |-> <<>>]

\* the pickled datetime, or the pickled None
DumpBirthday(b) == IF b = None THEN <<>> ELSE <<b.year, b.month, b.day, b.tod>>

LoadBirthday(t) ==
    IF t = <<>> THEN None
    ELSE [year |-> t[1], month |-> t[2], day |-> t[3], tod |-> t[4]]

\* pickle.dump of the book: per record the name, the birthday and the phone values
pickle_dump(data) ==
    [i \in 1..Len(data) |->
        <<data[i].name, DumpBirthday(data[i].birthday), data[i].phones>>]

\* the birthdays are not restored
pickle_load_lossy(bytes) ==
    [i \in 1..Len(bytes) |->
        [name |-> bytes[i][1], birthday |-> None, phones |-> bytes[i][3]]]

\* pickle.load
pickle_load(bytes) ==
    [i \in 1..Len(bytes) |->
        [name |-> bytes[i][1], birthday |-> LoadBirthday(bytes[i][2]),
         phones |-> bytes[i][3]]]

\* save_data: the file is opened "wb" and holds the dump of the book
save_data(data) == [exists |-> TRUE, data |-> pickle_dump(data)]

\* load_data: an empty AddressBook on FileNotFoundError
load_data(f) == IF f.exists THEN pickle_load(f.data) ELSE <<>>

(***************************************************************************)
(* Inputs                                                                  *)
(***************************************************************************)
Alice == <<"A", "l", "i", "c", "e">>
Bob == <<"B", "o", "b">>
Names == {Alice, Bob}

Phone1 == <<"1", "2", "3", "4", "5", "6", "7", "8", "9", "0">>
\* ten decimal digits, the last one outside ASCII
Phone2 == <<"0", "9", "8", "7", "6", "5", "4", "3", "2", ArabicThree>>
NineDigits == <<"1", "2", "3", "4", "5", "6", "7", "8", "9">>
ElevenDigits == <<"1", "2", "3", "4", "5", "6", "7", "8", "9", "0", "1">>
WithLetter == <<"1", "2", "3", "4", "5", "a", "b", "c", "d", "e">>

ValidPhoneInputs == {Phone1, Phone2}
PhoneInputs == ValidPhoneInputs \cup {NineDigits, ElevenDigits, WithLetter}
OldPhoneInputs == {Phone1, Phone2, NineDigits}

LeapDay == <<"2", "9", ".", "0", "2", ".", "2", "0", "0", "0">>
SecondJan == <<"2", ".", "1", ".", "1", "9", "9", "0">>
SecondJanPadded == <<"0", "2", ".", "0", "1", ".", "1", "9", "9", "0">>
LeapDayOffYear == <<"2", "9", ".", "0", "2", ".", "2", "0", "0", "1">>
ShortYear == <<"2", ".", "1", ".", "9", "0">>
Dashes == <<"2", "-", "1", "-", "1", "9", "9", "0">>

ValidBirthdayInputs == {LeapDay, SecondJan, SecondJanPadded}
BirthdayInputs == ValidBirthdayInputs \cup {LeapDayOffYear, ShortYear, Dashes}

WordClose == <<"c", "l", "o", "s", "e">>
WordExit == <<"e", "x", "i", "t">>
WordHello == <<"h", "e", "l", "l", "o">>
WordAdd == <<"a", "d", "d">>
WordChange == <<"c", "h", "a", "n", "g", "e">>
WordPhone == <<"p", "h", "o", "n", "e">>
WordAll == <<"a", "l", "l">>
WordAddBirthday == <<"a", "d", "d", "-", "b", "i", "r", "t", "h", "d", "a", "y">>
WordShowBirthday == <<"s", "h", "o", "w", "-", "b", "i", "r", "t", "h", "d", "a", "y">>
WordBirthdays == <<"b", "i", "r", "t", "h", "d", "a", "y", "s">>
WordUnknown == <<"f", "o", "o">>

\* a line typed with single spaces between its words
Typed(words) == JoinText(words, <<" ">>)

\* the lines typed at the prompt
Lines ==
    {<<>>, <<" ">>, <<"\t", " ">>}
    \cup {Typed(<<WordClose>>), Typed(<<WordExit>>), Typed(<<WordHello>>),
          Typed(<<WordUnknown>>), Typed(<<WordAll>>), Typed(<<WordBirthdays>>),
          Typed(<<WordAdd>>), Typed(<<WordChange>>), Typed(<<WordPhone>>),
          Typed(<<WordAddBirthday>>), Typed(<<WordShowBirthday>>),
          <<" ">> \o Typed(<<WordHello>>) \o <<" ", "\t">>}
    \cup {Typed(<<w, n>>) : w \in {WordAdd, WordChange, WordPhone, WordAddBirthday,
                                   WordShowBirthday}, n \in Names}
    \cup {Typed(<<WordAdd, n, p>>) : n \in Names, p \in PhoneInputs}
    \cup {Typed(<<WordChange, n, o, p>>) :
             n \in Names, o \in OldPhoneInputs, p \in PhoneInputs}
    \cup {Typed(<<WordAddBirthday, n, b>>) : n \in Names, b \in BirthdayInputs}

\* user_input.split(maxsplit=1) and args[0].split(): the words of each line
ParsedLines == {Split(l) : l \in Lines}

\* the lines whose first word is the command w
LinesOf(w) == {ws \in ParsedLines : ws # <<>> /\ Head(ws) = w}

RefYears == {2023, 2024}

RefDays == {<<1, 1>>, <<1, 2>>, <<1, 3>>, <<12, 25>>, <<12, 26>>, <<12, 30>>,
            <<2, 28>>, <<3, 1>>}

\* midnight and noon, in seconds
RefTimes == {0, 43200}

\* the values datetime.today() takes
RefMoments ==
    {[year |-> y, month |-> md[1], day |-> md[2], tod |-> t] :
        y \in RefYears, md \in RefDays, t \in RefTimes}

(***************************************************************************)
(* The command loop of main                                                *)
(***************************************************************************)
\* get_upcoming_birthdays was not called
NoReturn == [ok |-> TRUE, names |-> <<>>, err |-> ""]

\* the step just taken: the branch, its arguments, the book and the status
\* before it, what it printed, and for birthdays the moment and the returned list
Taken(cmd, args, out, today, ret) ==
    [cmd |-> cmd, args |-> args, pre |-> book, prev |-> status, out |-> out,
     today |-> today, ret |-> ret]

\* no phone list is longer than the bound
Bounded(data) == \A i \in 1..Len(data) : Len(data[i].phones) <= MaxPhones

\* the step recorded while main waits in input()
Idle ==
    [cmd |-> "none", args |-> <<>>, pre |-> <<>>, prev |-> "stopped",
     out |-> <<>>, today |-> None, ret |-> NoReturn]

\* a line handled by a branch that goes back to the head of the loop
Handle(cmd, args, res) ==
    /\ Bounded(res.book)
    /\ book' = res.book
    /\ status' = "handled"
    /\ last' = Taken(cmd, args, res.out, None, NoReturn)
    /\ UNCHANGED file

\* main: book = load_data()
StartSession ==
    /\ status \in {"stopped", "ended", "crashed"}
    /\ book' = load_data(file)
    /\ status' = "input"
    /\ last' = Taken("start", <<>>, <<Line("Welcome to the assistant bot!", <<>>)>>,
                     None, NoReturn)
    /\ UNCHANGED file

\* the first run of the program
FirstStart == status = "stopped" /\ StartSession

\* while True: user_input = input("Enter a command: ")
Prompt ==
    /\ status = "handled"
    /\ status' = "input"
    /\ last' = Idle
    /\ UNCHANGED <<book, file>>

\* command, *args = ... of a line without a word: the ValueError leaves main
CmdBlank ==
    /\ status = "input"
    /\ \E ws \in ParsedLines :
          /\ ws = <<>>
          /\ status' = "crashed"
          /\ last' = Taken("blank", <<>>, <<>>, None, NoReturn)
          /\ UNCHANGED <<book, file>>

\* close, exit
CmdExit ==
    /\ status = "input"
    /\ \E ws \in LinesOf(WordClose) \cup LinesOf(WordExit) :
          /\ file' = save_data(book)
          /\ status' = "ended"
          /\ last' = Taken("exit", Tail(ws), <<Line("Good bye!", <<>>)>>, None, NoReturn)
          /\ UNCHANGED book

\* hello
CmdHello ==
    /\ status = "input"
    /\ \E ws \in LinesOf(WordHello) :
          Handle("hello", Tail(ws),
                 [book |-> book, out |-> <<Line("How can I help you?", <<>>)>>])

\* add
CmdAdd ==
    /\ status = "input"
    /\ \E ws \in LinesOf(WordAdd) : Handle("add", Tail(ws), add_contact(Tail(ws), book))

\* change
CmdChange ==
    /\ status = "input"
    /\ \E ws \in LinesOf(WordChange) :
          Handle("change", Tail(ws), change_phone(Tail(ws), book))

\* phone
CmdPhone ==
    /\ status = "input"
    /\ \E ws \in LinesOf(WordPhone) :
          Handle("phone", Tail(ws), show_phone_numbers(Tail(ws), book))

\* all
CmdAll ==
    /\ status = "input"
    /\ \E ws \in LinesOf(WordAll) : Handle("all", Tail(ws), show_all_contacts(book))

\* add-birthday
CmdAddBirthday ==
    /\ status = "input"
    /\ \E ws \in LinesOf(WordAddBirthday) :
          Handle("add-birthday", Tail(ws), add_birthday(Tail(ws), book))

\* show-birthday
CmdShowBirthday ==
    /\ status = "input"
    /\ \E ws \in LinesOf(WordShowBirthday) :
          Handle("show-birthday", Tail(ws), show_birthday(Tail(ws), book))

\* birthdays, run at the moment today
CmdBirthdays ==
    /\ status = "input"
    /\ \E ws \in LinesOf(WordBirthdays), today \in RefMoments :
          /\ book' = upcoming_birthdays(book, today).book
          /\ status' = "handled"
          /\ last' = Taken("birthdays", Tail(ws), upcoming_birthdays(book, today).out,
                           today, get_upcoming_birthdays(book, today))
          /\ UNCHANGED file

\* any other command
CmdInvalid ==
    /\ status = "input"
    /\ \E ws \in ParsedLines :
          /\ ws # <<>>
          /\ Head(ws) \notin {WordClose, WordExit, WordHello, WordAdd, WordChange,
                              WordPhone, WordAll, WordAddBirthday, WordShowBirthday,
                              WordBirthdays}
          /\ Handle("invalid", Tail(ws),
                    [book |-> book, out |-> <<Line("Invalid command.", <<>>)>>])

Init ==
    /\ book = <<>>
    /\ file = NoFile
    /\ status = "stopped"
    /\ last = Idle

Next ==
    \/ FirstStart
    \/ Prompt
    \/ CmdBlank
    \/ CmdExit
    \/ CmdHello
    \/ CmdAdd
    \/ CmdChange
    \/ CmdPhone
    \/ CmdAll
    \/ CmdAddBirthday
    \/ CmdShowBirthday
    \/ CmdBirthdays
    \/ CmdInvalid

\* one run of the program, started without a persisted file
Spec == Init /\ [][Next]_vars

(***************************************************************************)
(* Sessions: a running session is closed and the program is started again  *)
(***************************************************************************)
\* the birthdays a record holds
BirthdayValues == {None} \cup {Birthday(b).value : b \in ValidBirthdayInputs}

\* the phone lists a record holds
PhoneLists == UNION {[1..k -> ValidPhoneInputs] : k \in 0..MaxPhones}

RecordsOf(n) == [name : {n}, birthday : BirthdayValues, phones : PhoneLists]

\* the books the commands build over Names
Books ==
    {<<>>}
    \cup {<<r>> : r \in RecordsOf(Alice) \cup RecordsOf(Bob)}
    \cup {<<r1, r2>> : r1 \in RecordsOf(Alice), r2 \in RecordsOf(Bob)}
    \cup {<<r2, r1>> : r1 \in RecordsOf(Alice), r2 \in RecordsOf(Bob)}

InitSessions ==
    /\ file = NoFile
    /\ \/ (status = "stopped" /\ book = <<>>)
       \/ (status = "input" /\ book \in Books)
    /\ last = Idle

NextSessions == StartSession \/ CmdExit

\* sessions ended by close or exit and started again
SpecSessions == InitSessions /\ [][NextSessions]_vars

(***************************************************************************)
(* Properties                                                              *)
(***************************************************************************)
\* exactly ten decimal digits
IsTenDigits(p) == Len(p) = 10 /\ \A i \in 1..10 : p[i] \in Digits

\* the record stored under the name n
Stored(data, n) == data[CHOOSE i \in 1..Len(data) : data[i].name = n]

\* the names of the book
NamesIn(data) == {data[i].name : i \in 1..Len(data)}

RECURSIVE Without(_, _)
\* the list q without the elements equal to x, the order kept
Without(q, x) ==
    IF q = <<>> THEN <<>>
    ELSE IF Head(q) = x THEN Without(Tail(q), x)
    ELSE <<Head(q)>> \o Without(Tail(q), x)

\* the elements of a list
Elems(q) == {q[i] : i \in 1..Len(q)}

\* every record but the one named n is the same in both books
OthersSame(before, after, n) ==
    \A m \in NamesIn(before) \ {n} :
        m \in NamesIn(after) /\ Stored(after, m) = Stored(before, m)

\* the days from the date ref to the next date with the month and day of b
DaysUntilNext(b, ref) ==
    LET at(y) == [year |-> y, month |-> b.month, day |-> b.day, tod |-> 0]
        years == {y \in ref.year..(ref.year + 8) :
                     ValidDate(y, b.month, b.day) /\ Ordinal(at(y)) >= Ordinal(ref)}
        first == CHOOSE y \in years : \A z \in years : y <= z
    IN Ordinal(at(first)) - Ordinal(ref)

\* C1: the list get_upcoming_birthdays returns holds a record's name exactly
\* when the next occurrence of its birthday is 0 to 7 calendar days after the
\* reference date.
C1_WindowInclusive ==
    (last.cmd = "birthdays" /\ last.ret.ok) =>
        \A i \in 1..Len(last.pre) :
              (last.pre[i].name \in Elems(last.ret.names))
                <=> (/\ last.pre[i].birthday # None
                     /\ DaysUntilNext(last.pre[i].birthday, last.today) \in 0..7)

\* the change command reached edit_phone with a valid new phone
EditedValid ==
    /\ last.cmd = "change"
    /\ Len(last.args) >= 3
    /\ last.args[1] \in NamesIn(last.pre)
    /\ IsTenDigits(last.args[3])

\* C2 as stated: after edit_phone(old, new) with a valid new, find_phone(old)
\* returns the not-found text and find_phone(new) returns new.
C2_OldGoneNewFound ==
    EditedValid =>
        /\ find_phone(Stored(book, last.args[1]), last.args[2]) = PhoneNotFound
        /\ find_phone(Stored(book, last.args[1]), last.args[3]) = last.args[3]

\* C2 amended: after edit_phone(old, new) with a valid new, find_phone(new)
\* returns new, and find_phone(old) returns the not-found text when old differs
\* from new.
C2_OldGoneUnlessSame ==
    EditedValid =>
        /\ last.args[2] # last.args[3] =>
              find_phone(Stored(book, last.args[1]), last.args[2]) = PhoneNotFound
        /\ find_phone(Stored(book, last.args[1]), last.args[3]) = last.args[3]

C2_Witness ==
    /\ EditedValid
    /\ last.args[2] # last.args[3]
    /\ last.args[2] \in Elems(Stored(last.pre, last.args[1]).phones)
    /\ Len(Stored(last.pre, last.args[1]).phones) = 2

\* C3: every stored phone is a string of exactly ten decimal digits and every
\* stored birthday is a valid calendar date.
C3_StoredFieldsValid ==
    \A i \in 1..Len(book) :
        /\ \A j \in 1..Len(book[i].phones) : IsTenDigits(book[i].phones[j])
        /\ book[i].birthday # None =>
              /\ book[i].birthday.year \in 1..9999
              /\ book[i].birthday.month \in 1..12
              /\ book[i].birthday.day \in
                    1..DaysInMonth(book[i].birthday.year, book[i].birthday.month)

C3_Witness ==
    /\ last.cmd \in {"add", "change", "add-birthday"}
    /\ last.out # <<>>
    /\ last.out[1].text = "Error: "
    /\ \E i \in 1..Len(book) : book[i].phones # <<>> /\ book[i].birthday # None

\* the add command reached add_phone with a valid phone
AddedValid ==
    /\ last.cmd = "add"
    /\ Len(last.args) >= 2
    /\ IsTenDigits(last.args[2])

\* C4: add_contact with a valid phone adds one record with the phone list
\* [phone] and says "Contact added." for an absent name, appends the phone to the
\* stored record and says "Contact updated." for a present name, and leaves every
\* other record unchanged.
C4_AddOrUpdate ==
    AddedValid =>
        LET name == last.args[1]
            phone == last.args[2]
        IN /\ name \notin NamesIn(last.pre) =>
                /\ Len(book) = Len(last.pre) + 1
                /\ NamesIn(book) = NamesIn(last.pre) \cup {name}
                /\ Stored(book, name).phones = <<phone>>
                /\ last.out = <<Line("Contact added.", <<>>)>>
           /\ name \in NamesIn(last.pre) =>
                /\ Len(book) = Len(last.pre)
                /\ NamesIn(book) = NamesIn(last.pre)
                /\ Stored(book, name).phones = Stored(last.pre, name).phones \o <<phone>>
                /\ Stored(book, name).birthday = Stored(last.pre, name).birthday
                /\ last.out = <<Line("Contact updated.", <<>>)>>
           /\ OthersSame(last.pre, book, name)

C4_Witness ==
    /\ AddedValid
    /\ last.args[1] \in NamesIn(last.pre)
    /\ Len(last.pre) = 2
    /\ Stored(last.pre, last.args[1]).phones # <<>>
    /\ Stored(last.pre, last.args[1]).birthday # None

\* C5: the command loop never ends abnormally, and when it has ended the book
\* has been saved.
C5_NeverCrashes ==
    /\ status # "crashed"
    /\ status = "ended" => file = save_data(book)

\* the change command reached edit_phone with an invalid new phone
EditedInvalid ==
    /\ last.cmd = "change"
    /\ Len(last.args) >= 3
    /\ last.args[1] \in NamesIn(last.pre)
    /\ ~IsTenDigits(last.args[3])

\* C6: edit_phone with an invalid new phone fails with the invalid-format error
\* and leaves the record without the phones equal to old, all else unchanged
\* and new not stored.
C6_RemovedOnInvalidNew ==
    EditedInvalid =>
        LET name == last.args[1]
            before == Stored(last.pre, name)
        IN /\ last.out = <<ErrorLine(PhoneError)>>
           /\ NamesIn(book) = NamesIn(last.pre)
           /\ Len(book) = Len(last.pre)
           /\ Stored(book, name).phones = Without(before.phones, last.args[2])
           /\ Stored(book, name).birthday = before.birthday
           /\ last.args[3] \notin Elems(Stored(book, name).phones)
           /\ OthersSame(last.pre, book, name)

C6_Witness ==
    /\ EditedInvalid
    /\ last.args[2] \in Elems(Stored(last.pre, last.args[1]).phones)
    /\ Stored(book, last.args[1]).phones # <<>>

\* C7: every run of the birthdays command prints "No upcoming birthdays in the
\* next week." as its last line, after the line listing the names when the
\* returned list is not empty.
C7_AlwaysNoUpcoming ==
    last.cmd = "birthdays" =>
        /\ last.out # <<>>
        /\ last.out[Len(last.out)] = Line(NoUpcomingText, <<>>)
        /\ last.ret.names # <<>> =>
              /\ Len(last.out) = 2
              /\ last.out[1].text = UpcomingText

\* C8: a book saved by close or exit is loaded by the next session with the
\* same names and, per record, the same phone list and birthday; without a
\* persisted file the loaded book is empty.
C8_RoundTrip ==
    last.cmd = "start" =>
        /\ last.prev = "ended" =>
              /\ Len(book) = Len(last.pre)
              /\ NamesIn(book) = NamesIn(last.pre)
              /\ \A n \in NamesIn(last.pre) :
                    /\ Stored(book, n).phones = Stored(last.pre, n).phones
                    /\ Stored(book, n).birthday = Stored(last.pre, n).birthday
        /\ ~file.exists => book = <<>>

C8_Witness ==
    /\ last.cmd = "start"
    /\ last.prev = "ended"
    /\ Len(last.pre) = 2
    /\ \E i \in 1..Len(last.pre) :
          Len(last.pre[i].phones) = 2 /\ last.pre[i].birthday # None

\* C9: add_contact with a phone that is not ten digits reports the error and
\* leaves the address book unchanged.
C9_RejectedAddKeepsBook ==
    (/\ last.cmd = "add"
     /\ Len(last.args) >= 2
     /\ ~IsTenDigits(last.args[2]))
    => /\ last.out = <<ErrorLine(PhoneError)>>
       /\ book = last.pre

\* C10: get_upcoming_birthdays returns a list for every book of valid birthdays
\* and every reference date.
C10_QueryCompletes == last.cmd = "birthdays" => last.ret.ok

====
